---- MODULE Spec2Model ----
(***************************************************************************)
(* Model of the mutation / amplification engine of SELEX_Sim               *)
(* (src/Mutation.py): one round of Mutation.generate_mutants_new or of the *)
(* legacy Mutation.generate_mutants over a pool of sequences.              *)
(*                                                                         *)
(* Sequences are strings over a 4-letter alphabet, modelled as sequences   *)
(* of symbol indices 0..3; a pool entry is the numpy array                 *)
(* [count, distance, bias].  Random draws (binomial, Poisson, positions,   *)
(* nucleotides, cycle numbers) are nondeterministic choices.  Floats are   *)
(* modelled exactly as rationals where the code truncates them with int(). *)
(***************************************************************************)
EXTENDS Integers, Naturals, Sequences, FiniteSets, TLC

\* ---------------------------------------------------------------- bounds
\* self.seqLength and self.pcrCycleNum of the modelled engine.
seqLength == 2
pcrCycleNum == 2
\* Copies of one fine-grained batch that the model follows (the loop
\* "for mut in range(mutFreq)"); a longer batch is followed this far only.
MaxEvents == 1

\* ------------------------------------------------------ program constants
\* "elif mutFreq < 10000" / "elif mutFreq > 10000" / "np.sum(seqPop) > 10000"
Threshold == 10000
\* "for mni in range(4)", "4**(seqLength-seqPos-1)": the alphabet size
La == 4
\* min(0.99999, ...), in units of 1e-5
YieldCap == 99999
\* a probability of 1, in units of 1e-5
One == 100000
\* self.pcrYld = 0.5, in units of 1e-5
pcrYld == 50000
\* np.exp(-lamb) for lamb = 1, in units of 1e-4
ExpNegLamb == 3679
\* the unit of ExpNegLamb
ProbUnit == 10000

\* ---------------------------------------------------------------- helpers
RECURSIVE Pow(_, _)
Pow(b, e) == IF e = 0 THEN 1 ELSE b * Pow(b, e - 1)

RECURSIVE fact(_)
fact(n) == IF n = 0 THEN 1 ELSE n * fact(n - 1)

RECURSIVE SumSeq(_)
SumSeq(s) == IF s = << >> THEN 0 ELSE Head(s) + SumSeq(Tail(s))

RECURSIVE GCD(_, _)
GCD(a, b) == IF b = 0 THEN a ELSE GCD(b, a % b)

Ids == 0 .. (Pow(La, seqLength) - 1)

\* ------------------------------------------------------ the sequence codec
\* apt.get_seqArray(seqIdx): the symbol index at each position 0..L-1 of a
\* fixed-radix positional code, most significant symbol first.
get_seqArray(seqIdx) ==
  [seqPos \in 0 .. (seqLength - 1) |->
     (seqIdx \div Pow(La, seqLength - seqPos - 1)) % La]

\* apt.pseudoAptamerGenerator(seqIdx): the string of a sequence id.
pseudoAptamerGenerator(seqIdx) ==
  [i \in 1 .. seqLength |-> get_seqArray(seqIdx)[i - 1]]

\* apt.pseudoAptamerIndexGenerator(seq): the id of a string.
pseudoAptamerIndexGenerator(seq) ==
  SumSeq([i \in 1 .. Len(seq) |-> seq[i] * Pow(La, Len(seq) - i)])

\* ------------------------------------------------------------ the scorers
\* The aptamer the distance is measured to (aptamerSeqs).
aptamerSeqs == pseudoAptamerGenerator(0)

HammingDist(s, t) == Cardinality({i \in 1 .. Len(s) : s[i] # t[i]})

\* md(mutatedSeq) for the scorer choose_dist returned.
mdScore(scorer, seq) ==
  IF scorer = "hamming" THEN HammingDist(aptamerSeqs, seq) ELSE 0

\* d.bias_func(mutatedSeq, seqLength), in units of 1e-5.
bias_func(seq) == 0

\* ------------------------------------------------------------- the draws
\* numpy.random.binomial(n, p): p in units of 1e-5.  Every value of 0..n has
\* positive probability for 0 < p < 1; the model follows the extreme ones.
binom(n, p) ==
  IF n = 0 \/ p <= 0 THEN {0}
  ELSE IF p >= One THEN {n}
  ELSE {0, n}

Min(a, b) == IF a < b THEN a ELSE b

\* The forward branching "for n in range(k): count += int(binom(count, p))"
\* from one copy: the counts it can end with.
RECURSIVE Forward(_, _)
Forward(k, p) ==
  IF k = 0 THEN {1}
  ELSE UNION {{c + b : b \in binom(c, p)} : c \in Forward(k - 1, p)}

\* The runs with the population recorded after the cycle's draw instead of
\* before it ("sn += ...; seqPop[n] = sn").
RECURSIVE PopRunsRecordAfter(_, _, _)
PopRunsRecordAfter(sc, p, len) ==
  IF len = 0 THEN {[n \in {0} |-> sc]}
  ELSE UNION {{[n \in 0 .. len |-> IF n < len - 1 THEN r[n] ELSE r[len - 1] + b] :
                 b \in binom(r[len - 1], p)} : r \in PopRunsRecordAfter(sc, p, len - 1)}

\* The runs "seqPop[n] = sn; sn += int(binom(sn, p))" for n = 0..len-1 from
\* sn = sc: functions on 0..len whose last value is the final sn.
RECURSIVE PopRuns(_, _, _)
PopRuns(sc, p, len) ==
  IF len = 0 THEN {[n \in {0} |-> sc]}
  ELSE UNION {{[n \in 0 .. len |-> IF n < len THEN r[n] ELSE r[len - 1] + b] :
                 b \in binom(r[len - 1], p)} : r \in PopRuns(sc, p, len - 1)}

\* Symbols the model draws for random.randint(apt.La, size=mutNum+1).
NucDraws == {0, 1}

\* Numbers of Poisson draws equal to one outcome that the model follows.
DrawCounts == (0 .. MaxEvents) \cup {Threshold - 1, Threshold}

\* Frequencies the caller of generate_mutants passes in mutatedPool.
FreqInputs == (0 .. MaxEvents) \cup {Threshold - 1, Threshold, Threshold + 1}

RECURSIVE SumFn(_, _)
SumFn(f, hi) == IF hi < 0 THEN 0 ELSE f[hi] + SumFn(f, hi - 1)

\* ------------------------------------------------------------------ state
VARIABLES
  fn,              \* the entry point: "generate_mutants_new" | "generate_mutants"
  distname,        \* the strategy name passed in
  md,              \* the scorer choose_dist returned ("None": no scorer)
  amplfdSeqs,      \* the amplified pool: id -> [count, dist, bias]
  mutatedPoolArg,  \* generate_mutants: the mutatedPool argument, id -> frequencies
  mutatedKeys,     \* generate_mutants: the order enumerate(mutatedPool) yields
  prevSeqs,        \* generate_mutants_new: the keys saved at the start
  prevCopies,      \* generate_mutants_new: the counts saved at the start
  si,              \* index of the wild-type being processed
  seqPop,          \* population before each cycle, 0..N-1
  cycleNumProbs,   \* [num, den]: probability of cycle n is num[n]/den
  mutatedPool,     \* frequency per index 0..L-1 (the integer part)
  mutNum,          \* index of the enumerate(mutatedPool) loop
  mut,             \* copies of the current fine-grained batch done
  bulkIdx,         \* (position, symbol) pairs of the current bulk batch done
  pc,              \* position in the round
  err,             \* the exception raised, "" if none
  pool0,           \* the pool as passed in
  route,           \* the last frequency routed and the path it took
  ledger,          \* per input key: input count + every gain - every loss
  ownFreq,         \* frequencies the current wild-type's own draws gave
  regime,          \* how the current wild-type's frequencies were built
  lastEvent,       \* the last fine-grained mutation event
  scoreCalls,      \* the ids the scorers were called for, in order
  bulkStart,       \* the pool when the current bulk batch started
  processed        \* the keys taken as wild-types so far, in order

vars == <<fn, distname, md, amplfdSeqs, mutatedPoolArg, mutatedKeys, prevSeqs,
          prevCopies, si, seqPop, cycleNumProbs, mutatedPool, mutNum, mut,
          bulkIdx, pc, err, pool0, route, ledger, ownFreq, regime, lastEvent,
          scoreCalls, bulkStart, processed>>

hist == <<pool0, route, ledger, ownFreq, regime, lastEvent, scoreCalls, bulkStart,
          processed>>

\* ------------------------------------------------------------- the inputs
FnNew == "generate_mutants_new"
FnLegacy == "generate_mutants"

\* A pool entry as the caller supplies it, scores already computed.
InputEntry(k, c) ==
  [count |-> c,
   dist |-> HammingDist(aptamerSeqs, pseudoAptamerGenerator(k)),
   bias |-> bias_func(pseudoAptamerGenerator(k))]

\* Copy counts of the input pools: a few copies (sampling regime), a total of
\* exactly Threshold over the cycles, and enough for the closed-form regime
\* to put every mutation count on the bulk path.
FewCopies == 1
HalfThreshold == Threshold \div pcrCycleNum
ManyCopies == 3 * Threshold

\* The input pools: one wild-type, or the two neighbours 0 and 1.
InputPools ==
  {[k \in {w} |-> InputEntry(k, ManyCopies)] : w \in Ids}
  \cup {[k \in {0} |-> InputEntry(k, c)] : c \in {FewCopies, HalfThreshold}}
  \cup {[k \in {0, 1} |-> InputEntry(k, c[k])] :
          c \in {[k \in {0, 1} |-> FewCopies],
                 [k \in {0, 1} |-> IF k = 0 THEN ManyCopies ELSE FewCopies]}}

\* The orders a dict with key set S can be iterated in.
KeyOrders(S) ==
  {o \in [1 .. Cardinality(S) -> S] : \A i, j \in DOMAIN o : o[i] = o[j] => i = j}

DistNames == {"hamming", "random", "basepair", "loop", "bogus"}

Zeros(len) == [n \in 0 .. (len - 1) |-> 0]

NoRoute == [freq |-> 0, path |-> "skip", mutNum |-> 0]
NoEvent == [wt |-> 0, mid |-> 0, new |-> FALSE, mc |-> 0, wc |-> 0, nSubs |-> 0,
            mutNum |-> 0, midBefore |-> 0, wtBefore |-> 0, midAfter |-> 0,
            wtAfter |-> 0]

Init ==
  /\ fn \in {FnNew, FnLegacy}
  /\ amplfdSeqs \in InputPools
  /\ distname \in DistNames
  /\ distname # "hamming" => DOMAIN amplfdSeqs = {0}
  /\ fn = FnLegacy => /\ DOMAIN amplfdSeqs = {0}
                      /\ amplfdSeqs[0].count # HalfThreshold
                      /\ distname \in {"hamming", "bogus"}
  /\ IF fn = FnLegacy
       THEN /\ mutatedPoolArg \in
                 [DOMAIN amplfdSeqs -> [0 .. (seqLength - 1) -> FreqInputs]]
            /\ mutatedKeys \in KeyOrders(DOMAIN amplfdSeqs)
       ELSE /\ mutatedPoolArg = << >>
            /\ mutatedKeys = << >>
  /\ md = "unset"
  /\ prevSeqs = << >>
  /\ prevCopies = << >>
  /\ si = 0
  /\ seqPop = Zeros(pcrCycleNum)
  /\ cycleNumProbs = [num |-> Zeros(pcrCycleNum), den |-> 0]
  /\ mutatedPool = Zeros(seqLength)
  /\ mutNum = 0
  /\ mut = 0
  /\ bulkIdx = 0
  /\ pc = "start"
  /\ err = ""
  /\ pool0 = amplfdSeqs
  /\ route = NoRoute
  /\ ledger = [k \in DOMAIN amplfdSeqs |-> amplfdSeqs[k].count]
  /\ ownFreq = Zeros(seqLength)
  /\ regime = "none"
  /\ lastEvent = NoEvent
  /\ scoreCalls = << >>
  /\ bulkStart = amplfdSeqs
  /\ processed = << >>

\* ------------------------------------------------------------ choose_dist
\* The scorer choose_dist returns; a name it does not know falls off the
\* end of the function, which returns None.
choose_dist(name) ==
  IF name = "hamming" THEN "hamming"
  ELSE IF name = "random" THEN "random"
  ELSE IF name = "basepair" THEN "basepair"
  ELSE IF name = "loop" THEN "loop"
  ELSE "None"

\* choose_dist calls utils.apt_loopFinder for every name but these.
CallsLoopFinder(name) == name \notin {"hamming", "random", "basepair"}

\* The sequences the round iterates over.
CurSeqs == IF fn = FnNew THEN prevSeqs ELSE mutatedKeys
\* The loop index left out: the first key is taken every time.
seqIdxFirst == CurSeqs[1]

\* "for si, (seqIdx, sc) in enumerate(zip(prevSeqs, prevCopies))"
seqIdx == CurSeqs[si + 1]

\* utils.apt_loopFinder is not defined in utils.py: where utils is that
\* module the call raises AttributeError; where the loop finder is supplied
\* it returns and choose_dist goes on.
ChooseDistRaises ==
  /\ pc = "start"
  /\ CallsLoopFinder(distname)
  /\ pc' = "error"
  /\ err' = "AttributeError"
  /\ UNCHANGED <<fn, distname, md, amplfdSeqs, mutatedPoolArg, mutatedKeys,
                 prevSeqs, prevCopies, si, seqPop, cycleNumProbs, mutatedPool,
                 mutNum, mut, bulkIdx, hist>>

\* The start of a round, up to the loop over the wild-types.
Begin ==
  /\ pc = "start"
  /\ md' = choose_dist(distname)
  /\ IF fn = FnNew
       THEN \E o \in KeyOrders(DOMAIN amplfdSeqs) :
              /\ prevSeqs' = o
              /\ prevCopies' = [i \in DOMAIN o |-> amplfdSeqs[o[i]].count]
       ELSE UNCHANGED <<prevSeqs, prevCopies>>
  /\ pc' = "seq"
  /\ UNCHANGED <<fn, distname, amplfdSeqs, mutatedPoolArg, mutatedKeys, si,
                 seqPop, cycleNumProbs, mutatedPool, mutNum, mut, bulkIdx, err,
                 hist>>

\* The yield of a sequence with the given bias: capped in generate_mutants_new only.
Yield(bias) ==
  IF fn = FnNew THEN Min(YieldCap, pcrYld + bias) ELSE pcrYld + bias

\* generate_mutants_new: the PCR of one wild-type from its saved count, and
\* the cycle number probabilities.
Amplify ==
  /\ pc = "seq"
  /\ fn = FnNew
  /\ si < Len(prevSeqs)
  /\ \E run \in PopRuns(prevCopies[si + 1], Yield(amplfdSeqs[seqIdx].bias),
                        pcrCycleNum) :
       /\ seqPop' = [n \in 0 .. (pcrCycleNum - 1) |-> run[n]]
       /\ amplfdSeqs' = [amplfdSeqs EXCEPT ![seqIdx].count = run[pcrCycleNum]]
       /\ ledger' = [ledger EXCEPT
                       ![seqIdx] = @ + run[pcrCycleNum] - prevCopies[si + 1]]
  /\ cycleNumProbs' = [num |-> seqPop', den |-> SumFn(seqPop', pcrCycleNum - 1)]
  /\ processed' = Append(processed, seqIdx)
  /\ pc' = "regime"
  /\ UNCHANGED <<fn, distname, md, mutatedPoolArg, mutatedKeys, prevSeqs,
                 prevCopies, si, mutatedPool, mutNum, mut, bulkIdx, err, pool0,
                 route, ownFreq, regime, lastEvent, scoreCalls, bulkStart>>

\* generate_mutants: the cycle number probabilities stored with the entry
\* (amplfdSeqs[seqIdx][3:]), here uniform over the cycles.
entryCycleProbs(k) ==
  [num |-> [n \in 0 .. (pcrCycleNum - 1) |-> 1], den |-> pcrCycleNum]

\* generate_mutants: the next wild-type of mutatedPool.
LegacySeq ==
  /\ pc = "seq"
  /\ fn = FnLegacy
  /\ si < Len(mutatedKeys)
  /\ cycleNumProbs' = entryCycleProbs(seqIdx)
  /\ mutatedPool' = mutatedPoolArg[seqIdx]
  /\ ownFreq' = mutatedPoolArg[seqIdx]
  /\ regime' = "given"
  /\ processed' = Append(processed, seqIdx)
  /\ mutNum' = 0
  /\ pc' = "mutloop"
  /\ UNCHANGED <<fn, distname, md, amplfdSeqs, mutatedPoolArg, mutatedKeys,
                 prevSeqs, prevCopies, si, seqPop, mut, bulkIdx, err, pool0,
                 route, ledger, lastEvent, scoreCalls, bulkStart>>

\* The loop over the wild-types is over: the round returns the pool.
Finish ==
  /\ pc = "seq"
  /\ si = Len(CurSeqs)
  /\ pc' = "done"
  /\ UNCHANGED <<fn, distname, md, amplfdSeqs, mutatedPoolArg, mutatedKeys,
                 prevSeqs, prevCopies, si, seqPop, cycleNumProbs, mutatedPool,
                 mutNum, mut, bulkIdx, err, hist>>

\* ------------------------------------------------- the frequency vector
\* lamb = L*e of get_mutation_probabilities_original, for errorRate = 1/L
lamb == 1

\* get_mutation_probabilities_original()[m] = lamb**m * exp(-lamb) / m!,
\* in units of 1e-4.
mutNumProbs(m) == (Pow(lamb, m) * ExpNegLamb) \div fact(m)

\* "mutNumProbs[1:self.seqLength+1]*seqPop.sum()": index i holds the expected
\* number of copies with i+1 mutations (its integer part, which is all that
\* int(mutatedPool[mutNum]) reads).
ClosedForm(total) ==
  [i \in 0 .. (seqLength - 1) |-> (mutNumProbs(i + 1) * total) \div ProbUnit]

\* "for mutNum in muts: mutatedPool[mutNum] += 1" for cnt[m] draws equal to m:
\* the draw m is counted at index m of the vector the loop was entered with.
Bucketed(pool, cnt) ==
  [i \in 0 .. (seqLength - 1) |-> pool[i] + (IF i \in DOMAIN cnt THEN cnt[i] ELSE 0)]

\* After the frequency vector is built: "if mutatedPool.sum() == 0: continue".
AfterRegime(total) ==
  IF SumFn(mutatedPool', seqLength - 1) = 0
    THEN /\ si' = si + 1
         /\ pc' = "seq"
         /\ UNCHANGED mutNum
    ELSE /\ pc' = "mutloop"
         /\ mutNum' = 0
         /\ UNCHANGED si

\* generate_mutants_new: the frequency vector of the current wild-type.
Regime ==
  /\ pc = "regime"
  /\ LET total == SumFn(seqPop, pcrCycleNum - 1) IN
       \/ /\ total > Threshold
          /\ mutatedPool' = ClosedForm(total)
          /\ ownFreq' = ClosedForm(total)
          /\ regime' = "closed"
          /\ AfterRegime(total)
          /\ UNCHANGED err
       \/ /\ total <= Threshold
          /\ \E cnt \in [1 .. (seqLength - 1) -> DrawCounts] :
               /\ SumFn([i \in 0 .. (seqLength - 1) |->
                           IF i \in DOMAIN cnt THEN cnt[i] ELSE 0],
                        seqLength - 1) <= total
               /\ mutatedPool' = Bucketed(mutatedPool, cnt)
               /\ ownFreq' = Bucketed(Zeros(seqLength), cnt)
          /\ regime' = "sampling"
          /\ AfterRegime(total)
          /\ UNCHANGED err
       \/ \* some draw is seqLength or more: mutatedPool[mutNum] is out of range
          /\ total <= Threshold
          /\ total >= 1
          /\ pc' = "error"
          /\ err' = "IndexError"
          /\ regime' = "sampling"
          /\ UNCHANGED <<mutatedPool, ownFreq, si, mutNum>>
  /\ UNCHANGED <<fn, distname, md, amplfdSeqs, mutatedPoolArg, mutatedKeys,
                 prevSeqs, prevCopies, seqPop, cycleNumProbs, mut, bulkIdx,
                 pool0, route, ledger, lastEvent, scoreCalls, bulkStart,
                 processed>>

\* ------------------------------------------------------ the routing
\* "for mutNum, mutFreq in enumerate(mutatedPool)": one frequency is routed
\* to the fine-grained path, to the bulk path or to neither.
Route ==
  /\ pc = "mutloop"
  /\ \/ /\ mutNum = seqLength
        /\ si' = si + 1
        /\ pc' = "seq"
        /\ UNCHANGED <<mutNum, mut, bulkIdx, route, bulkStart>>
     \/ /\ mutNum < seqLength
        /\ mutatedPool[mutNum] = 0
        /\ mutNum' = mutNum + 1
        /\ route' = [freq |-> 0, path |-> "skip", mutNum |-> mutNum]
        /\ UNCHANGED <<si, pc, mut, bulkIdx, bulkStart>>
     \/ /\ mutNum < seqLength
        /\ mutatedPool[mutNum] # 0
        /\ mutatedPool[mutNum] < Threshold
        /\ pc' = "fine"
        /\ mut' = 0
        /\ route' = [freq |-> mutatedPool[mutNum], path |-> "fine", mutNum |-> mutNum]
        /\ UNCHANGED <<si, mutNum, bulkIdx, bulkStart>>
     \/ /\ mutNum < seqLength
        /\ mutatedPool[mutNum] > Threshold
        /\ pc' = "bulk"
        /\ bulkIdx' = 0
        /\ bulkStart' = amplfdSeqs
        /\ route' = [freq |-> mutatedPool[mutNum], path |-> "bulk", mutNum |-> mutNum]
        /\ UNCHANGED <<si, mutNum, mut>>
     \/ /\ mutNum < seqLength
        /\ mutatedPool[mutNum] # 0
        /\ ~(mutatedPool[mutNum] < Threshold)
        /\ ~(mutatedPool[mutNum] > Threshold)
        /\ mutNum' = mutNum + 1
        /\ route' = [freq |-> mutatedPool[mutNum], path |-> "none", mutNum |-> mutNum]
        /\ UNCHANGED <<si, pc, mut, bulkIdx, bulkStart>>
  /\ UNCHANGED <<fn, distname, md, amplfdSeqs, mutatedPoolArg, mutatedKeys,
                 prevSeqs, prevCopies, seqPop, cycleNumProbs, mutatedPool, err,
                 pool0, ledger, ownFreq, regime, lastEvent, scoreCalls,
                 processed>>

\* ------------------------------------------------------ the pool updates
\* The membership test left out: every mutant is taken for a new one.
MutantAbsentAlways(k) == TRUE

\* "if mutatedSeqIdx not in amplfdSeqs"
MutantAbsent(k) == k \notin DOMAIN amplfdSeqs

\* amplfdSeqs[k] = e
PutEntry(pool, k, e) ==
  [x \in DOMAIN pool \cup {k} |-> IF x = k THEN e ELSE pool[x]]

\* The entry the fine-grained path creates: np.array([1, mutDist, mutBias])
\* (generate_mutants: np.array([mutantCount, ...]) with mutantCount = 1).
NewFineEntry(seq) ==
  [count |-> 1, dist |-> mdScore(md, seq), bias |-> bias_func(seq)]

\* The entry the bulk path creates: np.array([0, mutDist, mutBias]).
NewBulkEntry(seq) ==
  [count |-> 0, dist |-> mdScore(md, seq), bias |-> bias_func(seq)]

\* "mutatedSeq[:(pos-1)] + apt.alphabetSet[nuc] + mutatedSeq[pos:]"
Substitute(seq, pos, nuc) ==
  SubSeq(seq, 1, pos - 1) \o <<nuc>> \o SubSeq(seq, pos + 1, Len(seq))

\* "for posNum, pos in enumerate(randPos)": the first n substitutions applied.
RECURSIVE ApplySubs(_, _, _, _)
ApplySubs(seq, randPos, randNucs, n) ==
  IF n = 0 THEN seq
  ELSE Substitute(ApplySubs(seq, randPos, randNucs, n - 1),
                  randPos[n - 1], randNucs[n - 1])

\* "size=mutNum+1": the substitutions drawn for a copy at index mutNum.
NumSubs(i) == i + 1

\* The ledger after a gain and a loss.
Booked(l, gainer, gain, loser, loss) ==
  LET l1 == IF gainer \in DOMAIN l THEN [l EXCEPT ![gainer] = @ + gain] ELSE l
  IN  IF loser \in DOMAIN l1 THEN [l1 EXCEPT ![loser] = @ - loss] ELSE l1

CountOf(pool, k) == IF k \in DOMAIN pool THEN pool[k].count ELSE 0

\* After one copy of a fine-grained batch: the next copy, or the next index.
AfterCopy ==
  IF mut + 1 = mutatedPool[mutNum]
    THEN /\ pc' = "mutloop"
         /\ mutNum' = mutNum + 1
         /\ mut' = 0
    ELSE /\ mut' = mut + 1
         /\ UNCHANGED <<pc, mutNum>>

\* ------------------------------------------------- the fine-grained path
\* One copy of "for mut in range(mutFreq)": a cycle number, mutNum+1
\* positions and nucleotides, the mutant's entry, the two forward branchings
\* and the two updates of the pool.
FineEvent ==
  /\ pc = "fine"
  /\ mut < MaxEvents
  /\ \E cycle \in {c \in 0 .. (pcrCycleNum - 1) : cycleNumProbs.num[c] > 0},
        randPos \in [0 .. mutNum -> 1 .. seqLength],
        randNucs \in [0 .. mutNum -> NucDraws] :
       LET wildTypeSeq == pseudoAptamerGenerator(seqIdx)
           mutatedSeq == ApplySubs(wildTypeSeq, randPos, randNucs, NumSubs(mutNum))
           mutatedSeqIdx == pseudoAptamerIndexGenerator(mutatedSeq)
           absent == MutantAbsent(mutatedSeqIdx)
           pool1 == IF absent
                      THEN PutEntry(amplfdSeqs, mutatedSeqIdx, NewFineEntry(mutatedSeq))
                      ELSE amplfdSeqs
       IN
         \/ \* md is None: md(mutatedSeq) raises TypeError
            /\ absent
            /\ md = "None"
            /\ pc' = "error"
            /\ err' = "TypeError"
            /\ UNCHANGED <<amplfdSeqs, mutNum, mut, ledger, lastEvent, scoreCalls>>
         \/ /\ ~(absent /\ md = "None")
            /\ \E mutantCount \in Forward(pcrCycleNum - cycle,
                                          Yield(pool1[mutatedSeqIdx].bias)),
                  wildTypeCount \in Forward(pcrCycleNum - cycle,
                                            Yield(pool1[seqIdx].bias)) :
                 LET pool2 == [pool1 EXCEPT ![mutatedSeqIdx].count = @ + mutantCount]
                     pool3 == [pool2 EXCEPT ![seqIdx].count = @ - wildTypeCount]
                 IN /\ amplfdSeqs' = pool3
                    /\ ledger' = Booked(ledger, mutatedSeqIdx, mutantCount,
                                        seqIdx, wildTypeCount)
                    /\ lastEvent' =
                         [wt |-> seqIdx, mid |-> mutatedSeqIdx, new |-> absent,
                          mc |-> mutantCount, wc |-> wildTypeCount,
                          nSubs |-> NumSubs(mutNum), mutNum |-> mutNum,
                          midBefore |-> CountOf(amplfdSeqs, mutatedSeqIdx),
                          wtBefore |-> amplfdSeqs[seqIdx].count,
                          midAfter |-> pool3[mutatedSeqIdx].count,
                          wtAfter |-> pool3[seqIdx].count]
            /\ scoreCalls' = IF absent THEN Append(scoreCalls, mutatedSeqIdx)
                             ELSE scoreCalls
            /\ AfterCopy
            /\ UNCHANGED err
  /\ UNCHANGED <<fn, distname, md, mutatedPoolArg, mutatedKeys, prevSeqs,
                 prevCopies, si, seqPop, cycleNumProbs, mutatedPool, bulkIdx,
                 pool0, route, ownFreq, regime, bulkStart, processed>>

\* --------------------------------------------------------- the bulk path
\* "initialMutCount = int(0.333*mutFreq/self.seqLength)"
initialMutCount(mutFreq) == (333 * mutFreq) \div (1000 * seqLength)

\* The (seqPos, mni) pairs of the two loops in order, "if mni == oni:
\* continue" applied: pair number idx of wild-type w.
BulkPair(w, idx) ==
  LET seqPos == idx \div (La - 1)
      oni == get_seqArray(w)[seqPos]
      r == idx % (La - 1)
  IN  [seqPos |-> seqPos, mni |-> IF r < oni THEN r ELSE r + 1]

\* The offset of the position taken from the wrong end of the string.
MutatedSeqIdxFromRight(w, seqPos, mni) ==
  LET oni == get_seqArray(w)[seqPos]
      mnd == mni - oni
  IN  w + (Pow(La, seqPos) * mnd)

\* "mnd = mni-oni; mutatedSeqIdx = seqIdx+(4**(self.seqLength-seqPos-1)*mnd)"
MutatedSeqIdx(w, seqPos, mni) ==
  LET oni == get_seqArray(w)[seqPos]
      mnd == mni - oni
  IN  w + (Pow(La, seqLength - seqPos - 1) * mnd)

\* int(cycleNumProb * initialMutCount * (1+pcrYld)**(pcrCycleNum-cycleNum)),
\* the product taken exactly.
ExpectedCopies(cycleNum, imc) ==
  LET g == GCD(cycleNumProbs.num[cycleNum], cycleNumProbs.den)
      h == GCD(One + pcrYld, One)
      k == pcrCycleNum - cycleNum
  IN  ((cycleNumProbs.num[cycleNum] \div g) * imc * Pow((One + pcrYld) \div h, k))
        \div ((cycleNumProbs.den \div g) * Pow(One \div h, k))

\* "amplfdSeqs[mutatedSeqIdx][0] += int(...)"
BulkGain(cycleNum, imc) == ExpectedCopies(cycleNum, imc)

\* The wild-type's loss taken without the amplification of the mutants.
BulkLossUnamplified(cycleNum, imc) ==
  (cycleNumProbs.num[cycleNum] * imc) \div cycleNumProbs.den

\* "amplfdSeqs[seqIdx][0] -= int(...)"
BulkLoss(cycleNum, imc) == ExpectedCopies(cycleNum, imc)

RECURSIVE SumGain(_, _)
SumGain(hi, imc) == IF hi < 0 THEN 0 ELSE BulkGain(hi, imc) + SumGain(hi - 1, imc)

RECURSIVE SumLoss(_, _)
SumLoss(hi, imc) == IF hi < 0 THEN 0 ELSE BulkLoss(hi, imc) + SumLoss(hi - 1, imc)

\* One (position, symbol) pair of the bulk path: the mutant's id, its entry,
\* and the gains and losses of every cycle number.
BulkStep ==
  /\ pc = "bulk"
  /\ LET pair == BulkPair(seqIdx, bulkIdx)
         mutatedSeqIdx == MutatedSeqIdx(seqIdx, pair.seqPos, pair.mni)
         absent == MutantAbsent(mutatedSeqIdx)
         imc == initialMutCount(mutatedPool[mutNum])
         pool1 == IF absent
                    THEN PutEntry(amplfdSeqs, mutatedSeqIdx,
                                  NewBulkEntry(pseudoAptamerGenerator(mutatedSeqIdx)))
                    ELSE amplfdSeqs
         gain == SumGain(pcrCycleNum - 1, imc)
         loss == SumLoss(pcrCycleNum - 1, imc)
         pool2 == [pool1 EXCEPT ![mutatedSeqIdx].count = @ + gain]
         pool3 == [pool2 EXCEPT ![seqIdx].count = @ - loss]
     IN
       \/ /\ absent
          /\ md = "None"
          /\ pc' = "error"
          /\ err' = "TypeError"
          /\ UNCHANGED <<amplfdSeqs, mutNum, bulkIdx, ledger, scoreCalls>>
       \/ /\ ~(absent /\ md = "None")
          /\ amplfdSeqs' = pool3
          /\ ledger' = Booked(ledger, mutatedSeqIdx, gain, seqIdx, loss)
          /\ scoreCalls' = IF absent THEN Append(scoreCalls, mutatedSeqIdx)
                           ELSE scoreCalls
          /\ IF bulkIdx + 1 = (La - 1) * seqLength
               THEN /\ pc' = "mutloop"
                    /\ mutNum' = mutNum + 1
                    /\ bulkIdx' = 0
               ELSE /\ bulkIdx' = bulkIdx + 1
                    /\ UNCHANGED <<pc, mutNum>>
          /\ UNCHANGED err
  /\ UNCHANGED <<fn, distname, md, mutatedPoolArg, mutatedKeys, prevSeqs,
                 prevCopies, si, seqPop, cycleNumProbs, mutatedPool, mut, pool0,
                 route, ownFreq, regime, lastEvent, bulkStart, processed>>

Next ==
  \/ ChooseDistRaises
  \/ Begin
  \/ Amplify
  \/ LegacySeq
  \/ Finish
  \/ Regime
  \/ Route
  \/ FineEvent
  \/ BulkStep

Spec == Init /\ [][Next]_vars

\* ================================================================ claims
KnownNames == {"hamming", "random", "basepair", "loop"}

RECURSIVE PoolTotal(_)
PoolTotal(pool) ==
  IF DOMAIN pool = {} THEN 0
  ELSE LET k == CHOOSE x \in DOMAIN pool : TRUE
       IN  pool[k].count + PoolTotal([x \in DOMAIN pool \ {k} |-> pool[x]])

\* The ids whose strings differ from the string of w in exactly one position.
SinglePointMutants(w) ==
  {v \in Ids : HammingDist(pseudoAptamerGenerator(v), pseudoAptamerGenerator(w)) = 1}

\* C1: every nonzero mutation frequency is handled by exactly one path: by
\* the bulk path when it is Threshold (10,000) or more, by the fine-grained
\* path when it is less; none is handled by neither.
C1_PathByFrequency ==
  route.path # "skip" =>
    IF route.freq >= Threshold THEN route.path = "bulk" ELSE route.path = "fine"

\* C2: when a round over a pool of non-negative counts has returned, every
\* entry of the pool has a copy count >= 0.
C2_CountsNonNegative ==
  pc = "done" => \A k \in DOMAIN amplfdSeqs : amplfdSeqs[k].count >= 0

\* C3: a fine-grained event whose forward branchings added nothing (one
\* mutated copy, mutant other than the wild-type) raises the mutant's count
\* by exactly 1, a new mutant's from 0, and lowers the wild-type's by 1.
C3_EventConservesMass ==
  (lastEvent.nSubs > 0 /\ lastEvent.mc = 1 /\ lastEvent.wc = 1
     /\ lastEvent.mid # lastEvent.wt) =>
    /\ lastEvent.midAfter = lastEvent.midBefore + 1
    /\ lastEvent.wtAfter = lastEvent.wtBefore - 1

\* C4: the scorers are called only for an id that is absent from the pool
\* at that moment, and no step removes an entry or changes the distance or
\* the bias of an entry that exists: only its count changes.
C4_ScoresWrittenOnce ==
  [][/\ \A k \in DOMAIN amplfdSeqs :
          /\ k \in DOMAIN amplfdSeqs'
          /\ amplfdSeqs'[k].dist = amplfdSeqs[k].dist
          /\ amplfdSeqs'[k].bias = amplfdSeqs[k].bias
     /\ scoreCalls' # scoreCalls =>
          /\ Len(scoreCalls') = Len(scoreCalls) + 1
          /\ SubSeq(scoreCalls', 1, Len(scoreCalls)) = scoreCalls
          /\ scoreCalls'[Len(scoreCalls')] \notin DOMAIN amplfdSeqs]_vars

\* A round has returned in which the scorers were called for a new mutant
\* and an entry of the input pool was credited as a mutant of another.
C4_Witness ==
  /\ pc = "done"
  /\ scoreCalls # << >>
  /\ lastEvent.nSubs > 0
  /\ ~lastEvent.new
  /\ lastEvent.mid # lastEvent.wt

C6_IndexArithmetic ==
  pc = "bulk" =>
    LET w == seqIdx
        visited == {MutatedSeqIdx(w, BulkPair(w, i).seqPos, BulkPair(w, i).mni) :
                      i \in 0 .. ((La - 1) * seqLength - 1)}
    IN  /\ \A p \in 0 .. (seqLength - 1), a \in 0 .. (La - 1) :
             a # get_seqArray(w)[p] =>
               MutatedSeqIdx(w, p, a) =
                 pseudoAptamerIndexGenerator(
                   Substitute(pseudoAptamerGenerator(w), p + 1, a))
        /\ Cardinality(visited) = 3 * seqLength
        /\ visited \subseteq Ids
        /\ w \notin visited
        /\ visited = SinglePointMutants(w)

\* A bulk batch of a wild-type other than id 0 is past its first pair.
C6_Witness == pc = "bulk" /\ seqIdx = 6 /\ bulkIdx > 0

\* C7: when a round of generate_mutants_new has returned, the count of
\* every key of the input pool holds every mutant gain credited to it in
\* the round: it is its input count plus its own amplification plus every
\* gain minus every loss, whatever the order of the wild-types.
C7_NoGainLost ==
  (pc = "done" /\ fn = FnNew) =>
    \A k \in DOMAIN pool0 : amplfdSeqs[k].count = ledger[k]

\* C8: the frequency vector used for a wild-type of generate_mutants_new
\* holds only what its own regime gave it (its own Poisson draws, or its own
\* closed form), and in the sampling regime its sum is at most the
\* wild-type's accumulated population.
C8_OwnFrequencies ==
  (fn = FnNew /\ pc \in {"mutloop", "fine", "bulk"}) =>
    /\ mutatedPool = ownFreq
    /\ regime = "sampling" =>
         SumFn(mutatedPool, seqLength - 1) <= SumFn(seqPop, pcrCycleNum - 1)

\* The mutation count the copies at index i were counted under: a Poisson
\* draw m is counted at index m, the closed form of m mutations at m-1.
CountedUnder(i) == IF regime = "sampling" THEN i ELSE i + 1

\* C9: in generate_mutants_new a copy counted under mutation count m gets
\* exactly m substitutions in the fine-grained path, and no Poisson outcome
\* in 1..L fails to be bucketed.
C9_SubstitutionsMatch ==
  fn = FnNew =>
    /\ err # "IndexError"
    /\ (pc = "fine" /\ ownFreq[mutNum] = mutatedPool[mutNum]) =>
         NumSubs(mutNum) = CountedUnder(mutNum)

\* C10: the bulk path conserves the total copy count: each step of a bulk
\* batch adds to the mutant what it takes from the wild-type, cycle by
\* cycle, so the pool's total is that of the batch's start, and no entry
\* but the wild-type and its 3*L single-point mutants differs from the
\* batch's start.
C10_BulkConserves ==
  [][pc = "bulk" =>
       LET pair == BulkPair(seqIdx, bulkIdx)
           mid == MutatedSeqIdx(seqIdx, pair.seqPos, pair.mni)
           imc == initialMutCount(mutatedPool[mutNum])
       IN  /\ \A c \in 0 .. (pcrCycleNum - 1) : BulkGain(c, imc) = BulkLoss(c, imc)
           /\ CountOf(amplfdSeqs', mid) - CountOf(amplfdSeqs, mid)
                = amplfdSeqs[seqIdx].count - amplfdSeqs'[seqIdx].count
           /\ PoolTotal(amplfdSeqs') = PoolTotal(bulkStart)
           /\ \A k \in DOMAIN amplfdSeqs' :
                k \notin ({seqIdx} \cup SinglePointMutants(seqIdx)) =>
                  /\ k \in DOMAIN bulkStart
                  /\ amplfdSeqs'[k] = bulkStart[k]]_vars

\* A bulk batch has ended: it took copies from the wild-type and created
\* entries.
C10_Witness ==
  /\ pc = "mutloop"
  /\ route.path = "bulk"
  /\ mutNum = route.mutNum + 1
  /\ amplfdSeqs[seqIdx].count < bulkStart[seqIdx].count
  /\ DOMAIN amplfdSeqs # DOMAIN bulkStart

\* C11: the PCR of a wild-type of generate_mutants_new records exactly N
\* populations, those before the cycles 0..N-1: the first is the count the
\* wild-type had when the round started, each next one is at least the one
\* before it and at most twice it, and the wild-type's count in the pool is
\* set to the population after the N-th step (at least the last recorded
\* one, at most twice it) before anything is subtracted from it.
C11_PopulationTrajectory ==
  [][(fn = FnNew /\ pc = "seq" /\ pc' = "regime") =>
       LET c == prevCopies[si + 1]
           last == seqPop'[pcrCycleNum - 1]
       IN  /\ DOMAIN seqPop' = 0 .. (pcrCycleNum - 1)
           /\ seqPop'[0] = c
           /\ \A n \in 0 .. (pcrCycleNum - 2) :
                /\ seqPop'[n] <= seqPop'[n + 1]
                /\ seqPop'[n + 1] <= 2 * seqPop'[n]
           /\ amplfdSeqs'[seqIdx].count >= last
           /\ amplfdSeqs'[seqIdx].count <= 2 * last
           /\ cycleNumProbs'.den = SumFn(seqPop', pcrCycleNum - 1)
           /\ \A k \in DOMAIN amplfdSeqs' :
                k # seqIdx => (k \in DOMAIN amplfdSeqs /\ amplfdSeqs'[k] = amplfdSeqs[k])]_vars

\* The second wild-type of a round has been amplified: it doubled in every
\* cycle from its start-of-round count, which is not the count the pool
\* held for it when its turn came.
C11_Witness ==
  /\ fn = FnNew
  /\ pc = "regime"
  /\ si = 1
  /\ seqPop[0] = prevCopies[2]
  /\ seqPop[0] > 0
  /\ seqPop[pcrCycleNum - 1] = Pow(2, pcrCycleNum - 1) * seqPop[0]
  /\ amplfdSeqs[seqIdx].count = 2 * seqPop[pcrCycleNum - 1]
  /\ ledger[seqIdx] # amplfdSeqs[seqIdx].count

\* C12: in a round of generate_mutants_new the keys taken as wild-types are
\* keys of the pool as it was when the round started, none taken twice, and
\* when the round returns they are exactly those keys; the entry a mutation
\* step takes copies from is the wild-type amplified last, never an entry
\* created in the round; no step removes a key, so the pool's key set always
\* contains the key set of the start.
C12_RoundSnapshot ==
  [][fn = FnNew =>
       /\ DOMAIN amplfdSeqs \subseteq DOMAIN amplfdSeqs'
       /\ DOMAIN pool0 \subseteq DOMAIN amplfdSeqs'
       /\ \A i \in DOMAIN processed' : processed'[i] \in DOMAIN pool0
       /\ \A i, j \in DOMAIN processed' : processed'[i] = processed'[j] => i = j
       /\ processed' # processed =>
            /\ pc = "seq"
            /\ processed' = Append(processed, prevSeqs[si + 1])
       /\ (pc \in {"fine", "bulk"} /\ amplfdSeqs' # amplfdSeqs) =>
            /\ seqIdx = processed[Len(processed)]
            /\ seqIdx \in DOMAIN pool0
            /\ \A k \in DOMAIN amplfdSeqs :
                 amplfdSeqs'[k].count < amplfdSeqs[k].count => k = seqIdx
       /\ pc' = "done" =>
            /\ {processed'[i] : i \in DOMAIN processed'} = DOMAIN pool0
            /\ Len(processed') = Cardinality(DOMAIN pool0)]_vars

\* A round over two keys has returned: both were taken as wild-types, and the
\* pool holds entries created in the round, which were not.
C12_Witness ==
  /\ fn = FnNew
  /\ pc = "done"
  /\ Len(processed) = 2
  /\ Cardinality(DOMAIN amplfdSeqs) > Cardinality(DOMAIN pool0) + 1
  /\ \E k \in DOMAIN amplfdSeqs \ DOMAIN pool0 : amplfdSeqs[k].count > 0

====
